---- MODULE Spec2Model ----
(***************************************************************************)
(* Tabular reinforcement-learning algorithms of algorl: the temporal       *)
(* difference family of src/algorl/src/TD.py (td_control for Sarsa and     *)
(* QLearning, DoubleQLearning, TabularTD0, NStepTD) and the bandits of     *)
(* src/algorl/src/bandit.py (Greedy).                                      *)
(*                                                                         *)
(* Floating point values are modelled as exact rationals <<n, d>> in       *)
(* lowest terms with d > 0.  Draws of the random number generators are     *)
(* nondeterministic choices.                                               *)
(***************************************************************************)
EXTENDS Integers, Sequences, FiniteSets, TLC

\* ------------------------------------------------------------------ bounds
NumOfEpochs == 2
NumEpisodes == 2
DQNumOfEpochs == 1
DQNumEpisodes == 2
PredNumOfEpochs == 2
TapeLen == 5
MaxNStep == 2
Time == 3

\* ------------------------------------------------------------------ numbers
Abs(x) == IF x < 0 THEN -x ELSE x

RECURSIVE GCD(_, _)
GCD(a, b) == IF b = 0 THEN a ELSE GCD(b, a % b)

Rat(n, d) ==
    LET s == IF d < 0 THEN -1 ELSE 1
        g == GCD(Abs(n), Abs(d))
    IN  <<(s * n) \div g, (s * d) \div g>>

RInt(n) == <<n, 1>>

RAdd(x, y) ==
    LET g == GCD(x[2], y[2])
    IN  Rat(x[1] * (y[2] \div g) + y[1] * (x[2] \div g), (x[2] \div g) * y[2])

RNeg(x) == <<-x[1], x[2]>>

RSub(x, y) == RAdd(x, RNeg(y))

RMul(x, y) ==
    LET g1 == GCD(Abs(x[1]), y[2])
        g2 == GCD(Abs(y[1]), x[2])
    IN  Rat((x[1] \div g1) * (y[1] \div g2), (x[2] \div g2) * (y[2] \div g1))

RDiv(x, y) == RMul(x, Rat(y[2], y[1]))

RLt(x, y) == x[1] * y[2] < y[1] * x[2]

RLe(x, y) == x[1] * y[2] <= y[1] * x[2]

RECURSIVE RPow(_, _)
RPow(x, k) ==
    IF k = 0 THEN RInt(1)
    ELSE IF k < 0 THEN RDiv(RInt(1), RPow(x, -k))
    ELSE RMul(x, RPow(x, k - 1))

\* ------------------------------------------------------------------ run parameters
alpha == <<1, 2>>
gamma == <<1, 3>>
Epsilons == {<<0, 1>>, <<1, 10>>}

\* ------------------------------------------------------------------ environment
None == 0 - 1
all_states == {0, 1, 2}
available_states == all_states
possible_actions == <<"L", "R">>
Actions == {possible_actions[i] : i \in 1 .. Len(possible_actions)}
\* A corridor of three cells; the step cost is -1 and the last cell may pay +1.
Grids == {[s \in all_states |-> RInt(-1)],
          [s \in all_states |-> IF s + 1 \in all_states THEN RInt(-1) ELSE RInt(1)]}
TerminalSets == {{}, {s \in all_states : s + 1 \notin all_states}}

new_state_given_action(s, a) ==
    IF a = "L" THEN (IF s = 0 THEN 0 ELSE s - 1)
    ELSE (IF s + 1 \in all_states THEN s + 1 ELSE s)

next_state_given_action(s, a) == new_state_given_action(s, a)

VARIABLES
    prog,                \* the algorithm that is run
    pc,                  \* position of the run in its loops
    terminal,            \* env: the set of terminal states
    grid,                \* env.grid
    initial_state,       \* env.initial_state
    starting_state_arg,  \* the starting_state the algorithm is constructed with
    starting_state,      \* self.starting_state
    epsilon,             \* self.epsilon
    algo,                \* td_control's update rule
    q_values_df,         \* td_control's Q table
    state_action_pairs,  \* td_control's policy table
    Q1, Q2,              \* DoubleQLearning's tables
    coin,                \* DoubleQLearning's last np.random.randint(2)
    epoch, state, action, num_of_steps,
    q_mean,                 \* Bandits.q_mean: the true mean of each arm (bandit_df 'mean')
    q_sd,                   \* Bandits.q_sd (bandit_df 'sd')
    bandit_reward,          \* _step's last sampled reward
    sample_averages,        \* Greedy.sample_averages
    q_estimation,           \* bandit_df 'q_estimation'
    action_count,           \* bandit_df 'action_count'
    num,                    \* simulate's loop index
    best_action_count,      \* simulate's counter
    best_action_percentage, \* simulate's list
    tape,                   \* the actions the seeded generator draws, in order
    n_step,                 \* NStepTD.n_step
    td0_pc, td0_grid, td0_epoch, td0_state, td0_done,
    td0_draws,              \* draws TabularTD0 has taken from the generator
    td0_steps,              \* steps of TabularTD0's current episode
    td0_writes,             \* TabularTD0's value writes, <<state, new value>>, in order
    ns_pc, ns_grid, ns_epoch, ns_state, ns_done, T, t, states, rewards, G, r,
    ns_draws, ns_writes,
    ns_updated              \* the positions r of states[] NStepTD has written in this episode

envVars == <<terminal, grid, initial_state, starting_state_arg, starting_state, epsilon>>
runVars == <<epoch, state, action, num_of_steps>>
tdVars == <<algo, q_values_df, state_action_pairs>>
dqVars == <<Q1, Q2, coin>>
banditVars == <<q_mean, q_sd, bandit_reward, sample_averages, q_estimation, action_count, num,
                best_action_count, best_action_percentage>>
td0Vars == <<td0_pc, td0_grid, td0_epoch, td0_state, td0_done, td0_draws, td0_steps,
             td0_writes>>
nsVars == <<ns_pc, ns_grid, ns_epoch, ns_state, ns_done, T, t, states, rewards, G, r,
            ns_draws, ns_writes, ns_updated>>
predVars == <<tape, n_step, td0Vars, nsVars>>
vars == <<prog, pc, envVars, runVars, tdVars, dqVars, banditVars, predVars>>

is_terminal_state(s) == s \in terminal

\* ------------------------------------------------------------------ policy selector
\* np.random.rand() < self.epsilon: the outcomes the draw can have.
RandBelowEpsilon == {b \in BOOLEAN : IF b THEN RLt(RInt(0), epsilon) ELSE RLt(epsilon, RInt(1))}

get_random_action == Actions

epsilon_greedy(a) == {b \in Actions : \E explore \in RandBelowEpsilon : explore \/ b = a}

\* A tie-break that keeps the last maximum of the row.
argmax_last(row) ==
    CHOOSE i \in 1 .. Len(possible_actions) :
        /\ \A j \in 1 .. Len(possible_actions) : RLe(row[possible_actions[j]], row[possible_actions[i]])
        /\ \A j \in (i + 1) .. Len(possible_actions) : RLt(row[possible_actions[j]], row[possible_actions[i]])

\* A selector that takes the smallest entry of the row.
argmax_min(row) ==
    CHOOSE i \in 1 .. Len(possible_actions) :
        /\ \A j \in 1 .. Len(possible_actions) : RLe(row[possible_actions[i]], row[possible_actions[j]])
        /\ \A j \in 1 .. (i - 1) : RLt(row[possible_actions[i]], row[possible_actions[j]])

\* np.argmax over a row laid out in possible_actions order: first index of the maximum.
argmax(row) ==
    CHOOSE i \in 1 .. Len(possible_actions) :
        /\ \A j \in 1 .. Len(possible_actions) : RLe(row[possible_actions[j]], row[possible_actions[i]])
        /\ \A j \in 1 .. (i - 1) : RLt(row[possible_actions[j]], row[possible_actions[i]])

select_action(s, Q) ==
    {b \in Actions : \E explore \in RandBelowEpsilon :
        IF explore THEN b \in get_random_action ELSE b = possible_actions[argmax(Q[s])]}

get_q_df == [s \in all_states |-> [a \in Actions |-> RInt(0)]]

\* ------------------------------------------------------------------ update rules
\* The update with alpha applied to the reward alone.
sarsa_formula_unbracketed(Q, s, a, reward, ns, na) ==
    [Q EXCEPT ![s][a] =
        RSub(RAdd(RAdd(Q[s][a], RMul(alpha, reward)), RMul(gamma, Q[ns][na])), Q[s][a])]

sarsa_formula(Q, s, a, reward, ns, na) ==
    [Q EXCEPT ![s][a] =
        RAdd(Q[s][a], RMul(alpha, RSub(RAdd(reward, RMul(gamma, Q[ns][na])), Q[s][a])))]

RECURSIVE MaxFrom(_, _, _)
MaxFrom(row, i, best) ==
    IF i > Len(possible_actions) THEN best
    ELSE MaxFrom(row, i + 1, IF RLt(best, row[possible_actions[i]]) THEN row[possible_actions[i]] ELSE best)

q_learning_formula(Q, s, a, reward, ns, na) ==
    LET max_value == MaxFrom(Q[ns], 2, Q[ns][possible_actions[1]])
    IN  [Q EXCEPT ![s][a] =
            RAdd(Q[s][a], RMul(alpha, RSub(RAdd(reward, RMul(gamma, max_value)), Q[s][a])))]

\* ------------------------------------------------------------------ td_control
\* A constructor that keeps the argument as it is given.
constructed_starting_state_kept(arg) == arg

\* self.starting_state = env.initial_state if starting_state is None else starting_state
constructed_starting_state(arg) == IF arg = None THEN initial_state ELSE arg

\* The states line 78 (and 364) can give an episode as its first state.
episode_start_states ==
    IF starting_state = None THEN available_states ELSE {starting_state}

\* env.initial_state is read only when the algorithm is constructed without a start.
InitEnv ==
    /\ terminal \in TerminalSets
    /\ grid \in Grids
    /\ starting_state_arg \in all_states \cup {None}
    /\ initial_state \in (IF starting_state_arg = None THEN all_states \cup {None} ELSE {None})
    /\ starting_state = constructed_starting_state(starting_state_arg)
    /\ epsilon \in Epsilons

\* The parts of the state an algorithm does not own stay at these values.
NoRun == epoch = 0 /\ state = 0 /\ action = possible_actions[1] /\ num_of_steps = 0

NoTD ==
    /\ algo = "none" /\ q_values_df = get_q_df
    /\ state_action_pairs = [s \in all_states |-> possible_actions[1]]

NoDQ == Q1 = get_q_df /\ Q2 = get_q_df /\ coin = 0

NoBandit ==
    /\ q_mean = <<>> /\ q_sd = <<>> /\ bandit_reward = RInt(0) /\ sample_averages = FALSE /\ q_estimation = <<>> /\ action_count = <<>>
    /\ num = 0 /\ best_action_count = 0 /\ best_action_percentage = <<>>

NoPred ==
    /\ tape = <<>> /\ n_step = 1
    /\ td0_pc = "idle" /\ td0_grid = <<>> /\ td0_epoch = 0 /\ td0_state = 0 /\ td0_done = FALSE
    /\ td0_draws = 0 /\ td0_steps = 0 /\ td0_writes = <<>>
    /\ ns_pc = "idle" /\ ns_grid = <<>> /\ ns_epoch = 0 /\ ns_state = 0 /\ ns_done = FALSE
    /\ T = 0 /\ t = 0 /\ states = <<>> /\ rewards = <<>> /\ G = RInt(0) /\ r = 0
    /\ ns_draws = 0 /\ ns_writes = <<>> /\ ns_updated = <<>>

InitTD ==
    /\ prog = "td"
    /\ pc = "epoch"
    /\ InitEnv
    /\ algo \in {"sarsa", "q_learning"}
    /\ q_values_df = get_q_df
    /\ state_action_pairs \in [all_states -> Actions]
    /\ NoRun /\ NoDQ /\ NoBandit /\ NoPred

\* A loop condition that lets the step counter pass the ceiling by one.
td_loop_condition_off_by_one == ~is_terminal_state(state) /\ num_of_steps <= NumEpisodes

\* while not self.env.is_terminal_state(state) and num_of_steps < self.num_episodes
td_loop_condition == ~is_terminal_state(state) /\ num_of_steps < NumEpisodes

TdStartEpisode ==
    /\ prog = "td" /\ pc = "epoch" /\ epoch < NumOfEpochs
    /\ \E s \in episode_start_states :
          /\ state' = s
          /\ action' = state_action_pairs[s]
    /\ num_of_steps' = 0
    /\ pc' = "loop"
    /\ UNCHANGED <<prog, envVars, epoch, tdVars, dqVars, banditVars, predVars>>

TdStep ==
    /\ prog = "td" /\ pc = "loop"
    /\ td_loop_condition
    /\ LET next_state == new_state_given_action(state, action)
           reward == grid[next_state]
       IN  \E next_action \in epsilon_greedy(state_action_pairs[next_state]) :
              /\ q_values_df' =
                    IF algo = "sarsa"
                    THEN sarsa_formula(q_values_df, state, action, reward, next_state, next_action)
                    ELSE q_learning_formula(q_values_df, state, action, reward, next_state, next_action)
              /\ state_action_pairs' = [state_action_pairs EXCEPT ![next_state] = next_action]
              /\ state' = next_state
              /\ action' = next_action
    /\ num_of_steps' = num_of_steps + 1
    /\ UNCHANGED <<prog, pc, envVars, epoch, algo, dqVars, banditVars, predVars>>

TdEndEpisode ==
    /\ prog = "td" /\ pc = "loop"
    /\ ~td_loop_condition
    /\ epoch' = epoch + 1
    /\ pc' = "epoch"
    /\ UNCHANGED <<prog, envVars, state, action, num_of_steps, tdVars, dqVars, banditVars, predVars>>

TdFinish ==
    /\ prog = "td" /\ pc = "epoch" /\ epoch = NumOfEpochs
    /\ pc' = "done"
    /\ UNCHANGED <<prog, envVars, runVars, tdVars, dqVars, banditVars, predVars>>

NextTD == TdStartEpisode \/ TdStep \/ TdEndEpisode \/ TdFinish

\* ------------------------------------------------------------------ DoubleQLearning
\* (Q1 + Q2)/2
Avg(A, B) == [s \in all_states |-> [a \in Actions |-> RDiv(RAdd(A[s][a], B[s][a]), RInt(2))]]

\* The update evaluated on the written table itself.
double_q_update_same_table(Upd, Other, s, a, reward, ns) ==
    LET best_action == possible_actions[argmax(Upd[s])]
        td_target == RAdd(reward, RMul(gamma, Upd[ns][best_action]))
        td_error == RSub(td_target, Upd[s][a])
    IN  [Upd EXCEPT ![s][a] = RAdd(Upd[s][a], RMul(alpha, td_error))]

\* One branch of the coin: Upd is the table written, Other the table read.
double_q_update(Upd, Other, s, a, reward, ns) ==
    LET best_action == possible_actions[argmax(Upd[s])]
        td_target == RAdd(reward, RMul(gamma, Other[ns][best_action]))
        td_error == RSub(td_target, Upd[s][a])
    IN  [Upd EXCEPT ![s][a] = RAdd(Upd[s][a], RMul(alpha, td_error))]

InitDQ ==
    /\ prog = "dq"
    /\ pc = "epoch"
    /\ InitEnv
    /\ Q1 = get_q_df /\ Q2 = get_q_df /\ coin = 0
    /\ NoRun /\ NoTD /\ NoBandit /\ NoPred

\* A loop condition that forgets the terminal test.
dq_loop_condition_no_terminal == num_of_steps < DQNumEpisodes

\* while not self.env.is_terminal_state(state) and num_of_steps < self.num_episodes
dq_loop_condition == ~is_terminal_state(state) /\ num_of_steps < DQNumEpisodes

DqStartEpisode ==
    /\ prog = "dq" /\ pc = "epoch" /\ epoch < DQNumOfEpochs
    /\ \E s \in episode_start_states :
          /\ state' = s
          /\ action' \in select_action(s, Avg(Q1, Q2))
    /\ num_of_steps' = 0
    /\ pc' = "loop"
    /\ UNCHANGED <<prog, envVars, epoch, tdVars, dqVars, banditVars, predVars>>

DqStep ==
    /\ prog = "dq" /\ pc = "loop"
    /\ dq_loop_condition
    /\ LET next_state == next_state_given_action(state, action)
           reward == grid[next_state]
       IN  \E next_action \in select_action(next_state, Avg(Q1, Q2)) :
              /\ \E c \in {0, 1} :
                    /\ coin' = c
                    /\ IF c # 0
                       THEN /\ Q1' = double_q_update(Q1, Q2, state, action, reward, next_state)
                            /\ Q2' = Q2
                       ELSE /\ Q2' = double_q_update(Q2, Q1, state, action, reward, next_state)
                            /\ Q1' = Q1
              /\ state' = next_state
              /\ action' = next_action
    /\ num_of_steps' = num_of_steps + 1
    /\ UNCHANGED <<prog, pc, envVars, epoch, tdVars, banditVars, predVars>>

DqEndEpisode ==
    /\ prog = "dq" /\ pc = "loop"
    /\ ~dq_loop_condition
    /\ epoch' = epoch + 1
    /\ pc' = "epoch"
    /\ UNCHANGED <<prog, envVars, state, action, num_of_steps, tdVars, dqVars, banditVars, predVars>>

DqFinish ==
    /\ prog = "dq" /\ pc = "epoch" /\ epoch = DQNumOfEpochs
    /\ pc' = "done"
    /\ UNCHANGED <<prog, envVars, runVars, tdVars, dqVars, banditVars, predVars>>

NextDQ == DqStartEpisode \/ DqStep \/ DqEndEpisode \/ DqFinish

\* ------------------------------------------------------------------ bandits: Greedy
bandit_name == <<"A", "B">>
Arms == {bandit_name[i] : i \in 1 .. Len(bandit_name)}
step_size == <<1, 10>>
Means == {RInt(0), RInt(1)}
\* np.random.normal(mean, sd): the rewards a draw can give.
Rewards == {RInt(0 - 1), RInt(0), RInt(1)}
Initials == {RInt(0), RInt(1)}

\* bandit_df.idxmax(axis=1)['mean']: the first arm with the highest true mean.
best_arm ==
    bandit_name[CHOOSE i \in 1 .. Len(bandit_name) :
        /\ \A j \in 1 .. Len(bandit_name) : RLe(q_mean[bandit_name[j]], q_mean[bandit_name[i]])
        /\ \A j \in 1 .. (i - 1) : RLt(q_mean[bandit_name[j]], q_mean[bandit_name[i]])]

\* Greedy._act: the arms the call can return.
Greedy_act ==
    {a \in Arms : \E explore \in RandBelowEpsilon :
        IF explore THEN TRUE
        ELSE \A b \in Arms : RLe(q_estimation[b], q_estimation[a])}

\* An estimate that averages over one sample more than were taken.
Greedy_step_estimate_extra_sample(old, reward, count) ==
    IF sample_averages
    THEN RAdd(old, RDiv(RSub(reward, old), RInt(count + 1)))
    ELSE RAdd(old, RMul(step_size, RSub(reward, old)))

\* Greedy._step's new estimate of the arm, given the incremented count.
Greedy_step_estimate(old, reward, count) ==
    IF sample_averages
    THEN RAdd(old, RDiv(RSub(reward, old), RInt(count)))
    ELSE RAdd(old, RMul(step_size, RSub(reward, old)))

InitBandit ==
    /\ prog = "bandit"
    /\ pc = "simulate"
    /\ terminal = {} /\ grid \in {[s \in all_states |-> RInt(0)]}
    /\ initial_state = None /\ starting_state_arg = None /\ starting_state = None
    /\ epsilon \in Epsilons
    /\ NoRun /\ NoTD /\ NoDQ /\ NoPred
    /\ q_mean \in [Arms -> Means]
    /\ q_sd = [a \in Arms |-> 1]
    /\ bandit_reward = RInt(0)
    /\ sample_averages \in BOOLEAN
    /\ \E initial \in Initials : q_estimation = [a \in Arms |-> RAdd(RInt(0), initial)]
    /\ action_count = [a \in Arms |-> 0]
    /\ num = 0 /\ best_action_count = 0 /\ best_action_percentage = <<>>

\* One iteration of simulate's loop: _act, _step and the bookkeeping.
GreedySimulateStep ==
    /\ prog = "bandit" /\ pc = "simulate" /\ num < Time
    /\ \E a \in Greedy_act, reward \in Rewards :
          /\ action' = a
          /\ bandit_reward' = reward
          /\ action_count' = [action_count EXCEPT ![a] = @ + 1]
          /\ q_estimation' = [q_estimation EXCEPT
                                ![a] = Greedy_step_estimate(@, reward, action_count[a] + 1)]
          /\ IF a = best_arm
             THEN /\ best_action_count' = best_action_count + 1
                  /\ best_action_percentage' =
                        Append(best_action_percentage, Rat(best_action_count + 1, num + 1))
             ELSE UNCHANGED <<best_action_count, best_action_percentage>>
    /\ num' = num + 1
    /\ UNCHANGED <<prog, pc, envVars, epoch, state, num_of_steps, tdVars, dqVars,
                   q_mean, q_sd, sample_averages, predVars>>

GreedySimulateEnd ==
    /\ prog = "bandit" /\ pc = "simulate" /\ num = Time
    /\ pc' = "done"
    /\ UNCHANGED <<prog, envVars, runVars, tdVars, dqVars, banditVars, predVars>>

NextBandit == GreedySimulateStep \/ GreedySimulateEnd

\* ------------------------------------------------------------------ bandits: UCB
\* UCB._act compares q_estimation[a] + UCB_param*sqrt(log(num+1)/(action_count[a]+1e-5)).
\* The bonus is the same for arms with the same count, and for num >= 1 the bonus of
\* an arm never tried (at least 26 with UCB_param = 0.1) exceeds the bonus of a tried
\* arm by more than the span of the estimates, which stay within the rewards and the
\* initial value. An arm b is then sure to have a higher estimate than a:
UCB_higher(b, a) ==
    \/ action_count[b] = action_count[a] /\ RLt(q_estimation[a], q_estimation[b])
    \/ num >= 1 /\ action_count[b] = 0 /\ action_count[a] > 0

\* UCB._act: the arms the call can return. Between tried arms of different counts
\* the comparison involves the irrational bonus; either arm is kept as an outcome.
UCB_act == {a \in Arms : \A b \in Arms : ~UCB_higher(b, a)}

InitUCB ==
    /\ prog = "ucb"
    /\ pc = "simulate"
    /\ terminal = {} /\ grid \in {[s \in all_states |-> RInt(0)]}
    /\ initial_state = None /\ starting_state_arg = None /\ starting_state = None
    /\ epsilon = RInt(0)
    /\ NoRun /\ NoTD /\ NoDQ /\ NoPred
    /\ q_mean \in [Arms -> Means]
    /\ q_sd = [a \in Arms |-> 1]
    /\ bandit_reward = RInt(0)
    /\ sample_averages \in BOOLEAN
    /\ \E initial \in Initials : q_estimation = [a \in Arms |-> RAdd(RInt(0), initial)]
    /\ action_count = [a \in Arms |-> 0]
    /\ num = 0 /\ best_action_count = 0 /\ best_action_percentage = <<>>

\* UCB._step's new estimate of the arm, given the incremented count.
UCB_step_estimate(old, reward, count) ==
    IF sample_averages
    THEN RAdd(old, RDiv(RSub(reward, old), RInt(count)))
    ELSE RAdd(old, RMul(step_size, RSub(reward, old)))

\* One iteration of UCB.simulate's loop: _act, _step and the bookkeeping.
UCBSimulateStep ==
    /\ prog = "ucb" /\ pc = "simulate" /\ num < Time
    /\ \E a \in UCB_act, reward \in Rewards :
          /\ action' = a
          /\ bandit_reward' = reward
          /\ action_count' = [action_count EXCEPT ![a] = @ + 1]
          /\ q_estimation' = [q_estimation EXCEPT
                                ![a] = UCB_step_estimate(@, reward, action_count[a] + 1)]
          /\ IF a = best_arm
             THEN /\ best_action_count' = best_action_count + 1
                  /\ best_action_percentage' =
                        Append(best_action_percentage, Rat(best_action_count + 1, num + 1))
             ELSE UNCHANGED <<best_action_count, best_action_percentage>>
    /\ num' = num + 1
    /\ UNCHANGED <<prog, pc, envVars, epoch, state, num_of_steps, tdVars, dqVars,
                   q_mean, q_sd, sample_averages, predVars>>

UCBSimulateEnd ==
    /\ prog = "ucb" /\ pc = "simulate" /\ num = Time
    /\ pc' = "done"
    /\ UNCHANGED <<prog, envVars, runVars, tdVars, dqVars, banditVars, predVars>>

NextUCB == UCBSimulateStep \/ UCBSimulateEnd

\* ------------------------------------------------------------------ TabularTD0 and NStepTD
\* Both predictors are run on their own copy of the same environment, from the same
\* starting state, with a generator seeded alike: each takes its draws from tape.
td0_reward == RInt(0 - 1)
step_cost == RInt(0 - 1)
T_initial == 100000
PredGrids == {[s \in all_states |-> RInt(0)],
              [s \in all_states |-> IF s + 1 \in all_states THEN RInt(0) ELSE RInt(1)]}

\* An episode that tests the starting state before its first step.
td0_initial_done_tested == is_terminal_state(starting_state)

\* done = False
td0_initial_done == FALSE

InitPred ==
    /\ prog = "pred"
    /\ pc = "run"
    /\ terminal \in TerminalSets
    /\ grid \in PredGrids
    /\ initial_state = None
    /\ starting_state_arg \in all_states
    /\ starting_state = constructed_starting_state(starting_state_arg)
    /\ epsilon = RInt(0)
    /\ NoRun /\ NoTD /\ NoDQ /\ NoBandit
    /\ tape \in [1 .. TapeLen -> Actions]
    /\ n_step \in 1 .. MaxNStep
    /\ td0_pc = "epoch" /\ td0_grid = grid /\ td0_epoch = 0 /\ td0_state = 0 /\ td0_done = FALSE
    /\ td0_draws = 0 /\ td0_steps = 0 /\ td0_writes = <<>>
    /\ ns_pc = "epoch" /\ ns_grid = grid /\ ns_epoch = 0 /\ ns_state = 0 /\ ns_done = FALSE
    /\ T = 0 /\ t = 0 /\ states = <<>> /\ rewards = <<>> /\ G = RInt(0) /\ r = 0
    /\ ns_draws = 0 /\ ns_writes = <<>> /\ ns_updated = <<>>

Td0StartEpisode ==
    /\ prog = "pred" /\ td0_pc = "epoch" /\ td0_epoch < PredNumOfEpochs
    /\ td0_state' = starting_state
    /\ td0_done' = td0_initial_done
    /\ td0_steps' = 0
    /\ td0_pc' = "loop"
    /\ UNCHANGED <<prog, pc, envVars, runVars, tdVars, dqVars, banditVars, tape, n_step,
                   td0_grid, td0_epoch, td0_draws, td0_writes, nsVars>>

\* A step that writes the entry of the state it moves to.
td0_written_state_next(s, next_state) == next_state

\* self.env.grid[state] = ...: the entry a step writes is that of the state it leaves.
td0_written_state(s, next_state) == s

\* One iteration of TabularTD0's while loop.
Td0Step ==
    /\ prog = "pred" /\ td0_pc = "loop" /\ ~td0_done
    /\ td0_draws < Len(tape)
    /\ LET a == tape[td0_draws + 1]
           next_state == new_state_given_action(td0_state, a)
           not_done == IF td0_done THEN RInt(0) ELSE RInt(1)
           new == RAdd(td0_grid[td0_state],
                       RMul(alpha, RSub(RAdd(td0_reward, RMul(RMul(gamma, td0_grid[next_state]), not_done)),
                                        td0_grid[td0_state])))
           written == td0_written_state(td0_state, next_state)
       IN  /\ td0_grid' = [td0_grid EXCEPT ![written] = new]
           /\ td0_writes' = Append(td0_writes, <<written, new>>)
           /\ td0_state' = next_state
           /\ td0_done' = is_terminal_state(next_state)
    /\ td0_draws' = td0_draws + 1
    /\ td0_steps' = td0_steps + 1
    /\ UNCHANGED <<prog, pc, envVars, runVars, tdVars, dqVars, banditVars, tape, n_step,
                   td0_pc, td0_epoch, nsVars>>

Td0EndEpisode ==
    /\ prog = "pred" /\ td0_pc = "loop" /\ td0_done
    /\ td0_epoch' = td0_epoch + 1
    /\ td0_pc' = "epoch"
    /\ UNCHANGED <<prog, pc, envVars, runVars, tdVars, dqVars, banditVars, tape, n_step,
                   td0_grid, td0_state, td0_done, td0_draws, td0_steps, td0_writes, nsVars>>

Td0Finish ==
    /\ prog = "pred" /\ td0_pc = "epoch" /\ td0_epoch = PredNumOfEpochs
    /\ td0_pc' = "done"
    /\ UNCHANGED <<prog, pc, envVars, runVars, tdVars, dqVars, banditVars, tape, n_step,
                   td0_grid, td0_epoch, td0_state, td0_done, td0_draws, td0_steps,
                   td0_writes, nsVars>>

Min(a, b) == IF a < b THEN a ELSE b

\* sum(rewards[x] * gamma**(r-x) for x in range(lo, hi)), over the 0-based list rw
RECURSIVE n_step_sum(_, _, _, _)
n_step_sum(rw, rr, lo, hi) ==
    IF lo >= hi THEN RInt(0)
    ELSE RAdd(RMul(rw[lo + 1], RPow(gamma, rr - lo)), n_step_sum(rw, rr, lo + 1, hi))

\* G of NStepTD for time rr, from the lists st and rw, the end TT and the table V
n_step_return(st, rw, rr, TT, V) ==
    LET sum == n_step_sum(rw, rr, rr, Min(rr + n_step, TT))
    IN  IF rr + n_step < TT
        THEN RAdd(sum, RMul(RPow(gamma, n_step), V[st[(rr + n_step - 1) + 1]]))
        ELSE sum

NsStartEpisode ==
    /\ prog = "pred" /\ ns_pc = "epoch" /\ ns_epoch < PredNumOfEpochs
    /\ T' = T_initial
    /\ t' = 0
    /\ states' = <<>> /\ rewards' = <<>>
    /\ ns_state' = starting_state
    /\ ns_done' = FALSE
    /\ ns_updated' = <<>>
    /\ ns_pc' = "loop"
    /\ UNCHANGED <<prog, pc, envVars, runVars, tdVars, dqVars, banditVars, tape, n_step,
                   td0Vars, ns_grid, ns_epoch, G, r, ns_draws, ns_writes>>

\* One iteration of NStepTD's while loop (t < T holds whenever the loop is entered
\* with fewer than T_initial steps behind it).
NsStep ==
    /\ prog = "pred" /\ ns_pc = "loop" /\ ~ns_done
    /\ t < T
    /\ ns_draws < Len(tape)
    /\ LET a == tape[ns_draws + 1]
           next_state == new_state_given_action(ns_state, a)
           rew == RAdd(ns_grid[next_state], step_cost)
           states1 == Append(states, ns_state)
           rewards1 == Append(rewards, rew)
           T1 == IF is_terminal_state(ns_state) THEN t + 1 ELSE T
           done1 == is_terminal_state(ns_state)
           r1 == t - n_step + 1
           G1 == IF r1 >= 0 THEN n_step_return(states1, rewards1, r1, T1, ns_grid) ELSE G
           writes == r1 >= 0 /\ ~is_terminal_state(ns_state)
           new == RAdd(ns_grid[states1[r1 + 1]], RMul(alpha, RSub(G1, ns_grid[states1[r1 + 1]])))
       IN  /\ states' = states1
           /\ rewards' = rewards1
           /\ T' = T1
           /\ r' = r1
           /\ G' = G1
           /\ ns_grid' = IF writes THEN [ns_grid EXCEPT ![states1[r1 + 1]] = new] ELSE ns_grid
           /\ ns_writes' = IF writes THEN Append(ns_writes, <<states1[r1 + 1], new>>) ELSE ns_writes
           /\ ns_updated' = IF writes THEN Append(ns_updated, r1) ELSE ns_updated
           /\ ns_done' = (done1 \/ r1 = T1 - 1)
           /\ ns_state' = next_state
    /\ t' = t + 1
    /\ ns_draws' = ns_draws + 1
    /\ UNCHANGED <<prog, pc, envVars, runVars, tdVars, dqVars, banditVars, tape, n_step,
                   td0Vars, ns_pc, ns_epoch>>

NsEndEpisode ==
    /\ prog = "pred" /\ ns_pc = "loop" /\ ns_done
    /\ ns_epoch' = ns_epoch + 1
    /\ ns_pc' = "epoch"
    /\ UNCHANGED <<prog, pc, envVars, runVars, tdVars, dqVars, banditVars, tape, n_step,
                   td0Vars, ns_grid, ns_state, ns_done, T, t, states, rewards, G, r,
                   ns_draws, ns_writes, ns_updated>>

NsFinish ==
    /\ prog = "pred" /\ ns_pc = "epoch" /\ ns_epoch = PredNumOfEpochs
    /\ ns_pc' = "done"
    /\ UNCHANGED <<prog, pc, envVars, runVars, tdVars, dqVars, banditVars, tape, n_step,
                   td0Vars, ns_grid, ns_epoch, ns_state, ns_done, T, t, states, rewards, G, r,
                   ns_draws, ns_writes, ns_updated>>

NextPred ==
    \/ Td0StartEpisode \/ Td0Step \/ Td0EndEpisode \/ Td0Finish
    \/ NsStartEpisode \/ NsStep \/ NsEndEpisode \/ NsFinish

SpecPred == InitPred /\ [][NextPred]_vars

\* ------------------------------------------------------------------ the programs
Init == InitTD \/ InitDQ \/ InitBandit \/ InitUCB

Next == NextTD \/ NextDQ \/ NextBandit \/ NextUCB

Spec == Init /\ [][Next]_vars

\* ------------------------------------------------------------------ properties
\* The largest entry of a row, and the actions that attain it.
RowMax(row) == CHOOSE m \in {row[b] : b \in DOMAIN row} : \A b \in DOMAIN row : RLe(row[b], m)

Maximizers(row) == {b \in DOMAIN row : row[b] = RowMax(row)}

TdStepTaken == prog = "td" /\ pc = "loop" /\ num_of_steps' = num_of_steps + 1

DqStepTaken == prog = "dq" /\ pc = "loop" /\ num_of_steps' = num_of_steps + 1

EpisodeStarted == pc = "epoch" /\ pc' = "loop"

\* C1: a td_control step from (state, action) to next state s' with next action a'
\* and reward grid[s'] sets Q[state, action] to old + alpha*(target - old), with
\* target = reward + gamma*Q[s', a'] for sarsa and reward + gamma*max_b Q[s', b] for
\* q_learning, and leaves every other entry of Q as it was.
C1_TdUpdateExact ==
    [][TdStepTaken =>
        LET old == q_values_df[state][action]
            reward == grid[state']
            target == IF algo = "sarsa"
                      THEN RAdd(reward, RMul(gamma, q_values_df[state'][action']))
                      ELSE RAdd(reward, RMul(gamma, RowMax(q_values_df[state'])))
        IN  /\ q_values_df'[state][action] = RAdd(old, RMul(alpha, RSub(target, old)))
            /\ \A s \in all_states, a \in Actions :
                  <<s, a>> # <<state, action>> => q_values_df'[s][a] = q_values_df[s][a]
    ]_vars

C1_Witness ==
    /\ prog = "td" /\ algo = "sarsa" /\ num_of_steps = 2
    /\ \E s \in all_states, a \in Actions : RLt(RInt(0), q_values_df[s][a])
    /\ \E s \in all_states, a \in Actions : RLt(q_values_df[s][a], RInt(0))

\* C2: in td_control and DoubleQLearning an episode never performs more than
\* num_episodes update steps, no update step is taken from a terminal state, and
\* the run is over exactly when num_of_epochs episodes have ended.
C2_EpisodesBounded ==
    /\ [](prog = "td" => /\ num_of_steps <= NumEpisodes
                         /\ epoch <= NumOfEpochs
                         /\ (pc = "done" => epoch = NumOfEpochs))
    /\ [](prog = "dq" => /\ num_of_steps <= DQNumEpisodes
                         /\ epoch <= DQNumOfEpochs
                         /\ (pc = "done" => epoch = DQNumOfEpochs))
    /\ [][(TdStepTaken \/ DqStepTaken) => ~is_terminal_state(state)]_vars
    /\ [][(prog \in {"td", "dq"} /\ pc = "loop" /\ is_terminal_state(state))
            => (epoch' = epoch + 1 /\ num_of_steps' = num_of_steps)]_vars

C2_Witness ==
    /\ prog = "td" /\ pc = "done" /\ terminal = {} /\ num_of_steps = NumEpisodes
    /\ epoch = NumOfEpochs

\* C4: every entry of Q (td_control) and of Q1 and Q2 (DoubleQLearning) in the row
\* of a terminal state keeps its initial value 0.
C4_TerminalRowsZero ==
    (prog \in {"td", "dq"}) =>
        \A s \in terminal, a \in Actions :
            /\ q_values_df[s][a] = RInt(0)
            /\ Q1[s][a] = RInt(0)
            /\ Q2[s][a] = RInt(0)

C4_Witness ==
    /\ prog = "dq" /\ pc = "done" /\ state \in terminal /\ num_of_steps = 2
    /\ Q1 # get_q_df /\ Q2 # get_q_df

\* C5: a DoubleQLearning step writes exactly one of Q1, Q2, only at (state, action):
\* the written table gets old + alpha*(reward + gamma*Other[next_state, b] - old),
\* b being the first maximizer of the written table's row of the current state;
\* the other table is unchanged.
DoubleQNew(Upd, Other, s, a, ns) ==
    LET b == CHOOSE c \in Maximizers(Upd[s]) :
                \A i, j \in 1 .. Len(possible_actions) :
                    (possible_actions[i] = c /\ possible_actions[j] \in Maximizers(Upd[s])) => i <= j
        old == Upd[s][a]
    IN  RAdd(old, RMul(alpha, RSub(RAdd(grid[ns], RMul(gamma, Other[ns][b])), old)))

OnlyEntry(New, Old, s, a, v) ==
    /\ New[s][a] = v
    /\ \A s2 \in all_states, a2 \in Actions : <<s2, a2>> # <<s, a>> => New[s2][a2] = Old[s2][a2]

C5_DoubleQOneTable ==
    [][DqStepTaken =>
        \/ /\ coin' = 1
           /\ OnlyEntry(Q1', Q1, state, action, DoubleQNew(Q1, Q2, state, action, state'))
           /\ Q2' = Q2
        \/ /\ coin' = 0
           /\ OnlyEntry(Q2', Q2, state, action, DoubleQNew(Q2, Q1, state, action, state'))
           /\ Q1' = Q1
    ]_vars

C5_Witness ==
    /\ prog = "dq" /\ num_of_steps = 2 /\ coin = 0
    /\ \E s \in all_states, a \in Actions : Q1[s][a] # RInt(0) /\ Q2[s][a] # RInt(0) /\ Q1[s][a] # Q2[s][a]

\* C8: with epsilon = 0 the action select_action returns for a state has the
\* largest value of the row it was given, and the arm Greedy._act returns has the
\* largest q_estimation.
C8_GreedyIsMaximal ==
    [][(epsilon = RInt(0)) =>
        /\ (prog = "dq" /\ (EpisodeStarted \/ DqStepTaken)) =>
              \A b \in Actions : RLe(Avg(Q1, Q2)[state'][b], Avg(Q1, Q2)[state'][action'])
        /\ (prog = "bandit" /\ num' = num + 1) =>
              \A b \in Arms : RLe(q_estimation[b], q_estimation[action'])
    ]_vars

C8_Witness ==
    /\ prog = "dq" /\ epsilon = RInt(0) /\ num_of_steps = 2
    /\ \E b \in Actions : RLt(Avg(Q1, Q2)[state][b], Avg(Q1, Q2)[state][action])

\* C9: in td_control with epsilon = 0 the action executed in a state (the one
\* picked at the start of an episode and the next action picked in every step)
\* maximizes the row of that state in the Q table at the time it is picked.
C9_ExecutedActionGreedy ==
    [][(prog = "td" /\ epsilon = RInt(0) /\ (EpisodeStarted \/ TdStepTaken)) =>
        \A b \in Actions : RLe(q_values_df[state'][b], q_values_df[state'][action'])
    ]_vars

\* C10 as stated: on the greedy branch every maximizer of the row is a possible
\* result of select_action, and every maximizing arm a possible result of
\* Greedy._act.
C10_AnyMaximizerPossible ==
    (epsilon = RInt(0)) =>
        /\ prog = "dq" =>
              \A s \in all_states : Maximizers(Avg(Q1, Q2)[s]) \subseteq select_action(s, Avg(Q1, Q2))
        /\ prog = "bandit" => Maximizers(q_estimation) \subseteq Greedy_act

\* C10 amended: on the greedy branch Greedy._act can return every maximizing arm
\* (and no other), while select_action returns the first maximizer of the row in
\* env.possible_actions order and no other.
FirstMaximizer(row) ==
    possible_actions[CHOOSE i \in 1 .. Len(possible_actions) :
        /\ possible_actions[i] \in Maximizers(row)
        /\ \A j \in 1 .. (i - 1) : possible_actions[j] \notin Maximizers(row)]

C10_TieBreaking ==
    /\ [](epsilon = RInt(0) =>
            /\ prog = "dq" =>
                  \A s \in all_states :
                      select_action(s, Avg(Q1, Q2)) = {FirstMaximizer(Avg(Q1, Q2)[s])}
            /\ prog = "bandit" => Greedy_act = Maximizers(q_estimation))
    /\ [][(epsilon = RInt(0)) =>
            /\ (prog = "dq" /\ (EpisodeStarted \/ DqStepTaken)) =>
                  action' = FirstMaximizer(Avg(Q1, Q2)[state'])
            /\ (prog = "bandit" /\ num' = num + 1) => action' \in Maximizers(q_estimation)
       ]_vars

C10_Witness ==
    /\ prog = "dq" /\ epsilon = RInt(0) /\ num_of_steps = 2
    /\ Maximizers(Avg(Q1, Q2)[state]) = Actions
    /\ action = possible_actions[1]
    /\ Q1 # Q2

\* C3 as stated: a TabularTD0 episode ends at a terminal state or when its step
\* counter reaches the configured ceiling (num_episodes), so no episode takes
\* more steps than the ceiling.
C3_StepCeiling == prog = "pred" => td0_steps <= NumEpisodes

\* C3 amended: a TabularTD0 episode ends only when the state reached by a step is
\* terminal; there is no step counter or ceiling, every episode takes at least
\* one step, and at a non-terminal state the loop goes on whatever the number of
\* steps taken.
C3_EndsOnlyAtTerminal ==
    /\ [][(prog = "pred" /\ td0_epoch' = td0_epoch + 1)
            => (is_terminal_state(td0_state) /\ td0_steps >= 1)]_vars
    /\ [](prog = "pred" /\ td0_pc = "loop" =>
            (td0_done <=> (td0_steps >= 1 /\ is_terminal_state(td0_state))))

C3_Witness ==
    /\ prog = "pred" /\ td0_pc = "loop" /\ ~td0_done
    /\ td0_steps > NumEpisodes /\ td0_steps = Len(tape)

\* C6: NStepTD with n_step = 1 and TabularTD0, on the same environment from the
\* same starting state with the same draws and the same reward at every step, make
\* the same value writes (same state written, same new value), step for step.
\* Stated for the first episode, as long as every reward NStepTD has recorded
\* equals TabularTD0's reward.
PrefixAgree(x, y) == \A i \in 1 .. Min(Len(x), Len(y)) : x[i] = y[i]

C6_NStepOneIsTD0 ==
    (/\ prog = "pred" /\ n_step = 1 /\ ns_epoch = 0
     /\ \A i \in 1 .. Len(rewards) : rewards[i] = td0_reward)
        => PrefixAgree(td0_writes, ns_writes)

\* C7: the return G that NStepTD uses to update the state visited at time r is
\* the sum over k = 0..n-1 (cut off at the episode end T) of gamma^k times the
\* reward received k steps after time r, plus, when r+n is before T, gamma^n
\* times the current value of the state reached at time r+n; the update is
\* V[s_r] <- V[s_r] + alpha*(G - V[s_r]).
RECURSIVE DiscountedSum(_, _, _, _)
DiscountedSum(rw, rr, k, TT) ==
    IF k >= n_step \/ rr + k >= TT THEN RInt(0)
    ELSE RAdd(RMul(RPow(gamma, k), rw[rr + k + 1]), DiscountedSum(rw, rr, k + 1, TT))

C7_NStepReturn ==
    [][(prog = "pred" /\ t' = t + 1 /\ Len(ns_writes') = Len(ns_writes) + 1) =>
        LET s_r == states'[r' + 1]
            Gclaim == RAdd(DiscountedSum(rewards', r', 0, T'),
                           IF r' + n_step < T'
                           THEN RMul(RPow(gamma, n_step), ns_grid[ns_state'])
                           ELSE RInt(0))
        IN  /\ G' = Gclaim
            /\ ns_writes'[Len(ns_writes')] =
                  <<s_r, RAdd(ns_grid[s_r], RMul(alpha, RSub(Gclaim, ns_grid[s_r])))>>
    ]_vars

\* The start states of an episode when self.starting_state follows the constructor:
\* the configured state, else env.initial_state, else any available state.
ConstructedStarts ==
    IF starting_state_arg # None THEN {starting_state_arg}
    ELSE IF initial_state # None THEN {initial_state}
    ELSE available_states

\* C11 as stated: every episode of Sarsa, QLearning and DoubleQLearning starts in
\* the configured start state when one is configured; when the algorithm is
\* constructed with starting_state = None, the first state of each episode is drawn
\* from env.available_states, so that every available state can start an episode.
C11_RandomWhenUnconfigured ==
    prog \in {"td", "dq"} =>
        episode_start_states =
            (IF starting_state_arg = None THEN available_states ELSE {starting_state_arg})

\* C11 amended: every episode of Sarsa, QLearning and DoubleQLearning starts in
\* the configured start state when one is configured; when the algorithm is
\* constructed with starting_state = None the constructor takes env.initial_state
\* instead and every episode starts there; only when env.initial_state is None as
\* well is the first state of each episode drawn from env.available_states.
C11_StartFromConstructed ==
    /\ [](prog \in {"td", "dq"} => episode_start_states = ConstructedStarts)
    /\ [][(prog \in {"td", "dq"} /\ EpisodeStarted) => state' \in ConstructedStarts]_vars

C11_Witness ==
    /\ prog = "td" /\ starting_state_arg = None /\ initial_state = 1
    /\ pc = "loop" /\ epoch = 1 /\ num_of_steps = 0 /\ state = 1

BanditStepTaken == prog \in {"bandit", "ucb"} /\ num' = num + 1

RECURSIVE SumCounts(_)
SumCounts(i) == IF i = 0 THEN 0 ELSE action_count[bandit_name[i]] + SumCounts(i - 1)

\* C12: in Greedy._step and UCB._step, one step on arm a with sampled reward r
\* increments action_count[a] by exactly 1 and sets q_estimation[a] to
\* old + (r - old)/new_count in sample-average mode or to old + step_size*(r - old)
\* in step-size mode, and leaves the count and estimate of every other arm and all
\* arms' mean and sd unchanged; after any k steps of simulate the counts sum to k.
C12_StepEffect ==
    /\ [][BanditStepTaken =>
            LET a == action'
                old == q_estimation[a]
                new_count == action_count[a] + 1
            IN  /\ action_count'[a] = new_count
                /\ q_estimation'[a] =
                      (IF sample_averages
                       THEN RAdd(old, RDiv(RSub(bandit_reward', old), RInt(new_count)))
                       ELSE RAdd(old, RMul(step_size, RSub(bandit_reward', old))))
                /\ \A b \in Arms \ {a} :
                      action_count'[b] = action_count[b] /\ q_estimation'[b] = q_estimation[b]
                /\ q_mean' = q_mean /\ q_sd' = q_sd
       ]_vars
    /\ [](prog \in {"bandit", "ucb"} => SumCounts(Len(bandit_name)) = num)

C12_Witness ==
    /\ prog = "ucb" /\ sample_averages /\ num = 3
    /\ action = bandit_name[1] /\ action_count[action] = 2
    /\ bandit_reward = RInt(1) /\ q_estimation[action] = <<1, 2>>

\* C13: TabularTD0.compute_state_value never writes the value entry env.grid[s] of
\* a terminal state s: for every configured starting_state, a terminal one
\* included, and after any number of epochs, no write goes to a terminal state
\* and the entries of all terminal states equal their values before the run.
C13_TerminalEntriesKept ==
    prog = "pred" =>
        /\ \A i \in 1 .. Len(td0_writes) : ~is_terminal_state(td0_writes[i][1])
        /\ \A s \in terminal : td0_grid[s] = grid[s]

\* C13 amended: TabularTD0.compute_state_value writes the entry of a terminal state
\* only as the first write of an episode whose configured starting_state is that
\* terminal state (the loop body runs once before the terminal test); with a
\* non-terminal starting_state, after any number of epochs the entries of all
\* terminal states equal their values before the run.
C13_TerminalWrittenOnlyAsStart ==
    /\ [][(prog = "pred" /\ Len(td0_writes') = Len(td0_writes) + 1) =>
            LET written == td0_writes'[Len(td0_writes')][1]
            IN  /\ written = td0_state
                /\ is_terminal_state(written) <=>
                      (td0_steps = 0 /\ written = starting_state
                         /\ is_terminal_state(starting_state))
       ]_vars
    /\ []((prog = "pred" /\ ~is_terminal_state(starting_state)) =>
            \A s \in terminal : td0_grid[s] = grid[s])

C13_Witness ==
    /\ prog = "pred" /\ is_terminal_state(starting_state)
    /\ td0_epoch = 1 /\ td0_pc = "loop" /\ td0_steps = 1
    /\ Len(td0_writes) >= 2 /\ td0_writes[Len(td0_writes)][1] = starting_state
    /\ td0_grid[starting_state] # grid[starting_state]

\* The number of value updates position i of the episode's trajectory has received.
UpdatesOf(i) == Cardinality({k \in 1 .. Len(ns_updated) : ns_updated[k] = i})

\* C14: in NStepTD.compute_state_value, for every n_step >= 1, by the time an
\* episode ends every non-terminal state occurrence of that episode's trajectory
\* has received exactly one value update (the updates of the last n-1 visited
\* states are flushed after the terminal state is reached), and no trajectory
\* position is updated twice.
C14_EveryOccurrenceUpdatedOnce ==
    prog = "pred" =>
        /\ \A i \in 0 .. (Len(states) - 1) : UpdatesOf(i) <= 1
        /\ (ns_pc = "loop" /\ ns_done) =>
              \A i \in 0 .. (Len(states) - 1) :
                  ~is_terminal_state(states[i + 1]) => UpdatesOf(i) = 1

\* C15: after Greedy.simulate(time) (and equally UCB.simulate),
\* best_action_percentage contains exactly one entry per step, so its length is
\* time when simulate returns, and its i-th entry equals (number of steps among the
\* first i+1 on which the arm with the highest true mean was chosen) / (i+1).
\* Stated after every step: the list has one entry per step taken, and the entry
\* of the last step is best_action_count over the number of steps.
C15_OneEntryPerStep ==
    prog \in {"bandit", "ucb"} =>
        /\ Len(best_action_percentage) = num
        /\ pc = "done" => Len(best_action_percentage) = Time
        /\ num > 0 => best_action_percentage[num] = Rat(best_action_count, num)

====
